---- MODULE Spec2Model ----
(***************************************************************************)
(* facebook-posts-scraper: the retrying fetcher and fetch_and_parse        *)
(* (extractors/facebook_parser.py), the thread-pool orchestrator           *)
(* scrape_urls (runner.py) and the count heuristic _extract_int_from_html. *)
(*                                                                         *)
(* Three specifications share the module:                                  *)
(*   FetchSpec    one call of fetch_and_parse, one loop iteration a step   *)
(*   Spec         one call of scrape_urls over a pool of worker threads    *)
(*   ExtractSpec  _extract_int_from_html applied to bounded document texts *)
(***************************************************************************)
EXTENDS Bags, FiniteSets, Integers, Sequences, TLC

VARIABLES
    \* ---- FacebookPostsScraper (one fetch_and_parse call) ----
    max_retries,     \* self.max_retries
    backoff_factor,  \* self.backoff_factor, in units of the smallest delay
    call,            \* the frame of _fetch_html_with_retries
    posts,           \* what fetch_and_parse returned (NotYet before that)
    \* ---- scrape_urls ----
    urls,            \* the argument urls
    max_workers,     \* the argument max_workers
    pc,              \* where the calling thread is in scrape_urls
    submitted,       \* how many urls the dict comprehension has submitted
    numThreads,      \* worker threads the executor has started
    workQueue,       \* the executor's FIFO work queue (entry indexes)
    fut,             \* entry index -> its future
    collected,       \* entries already yielded by as_completed
    results,         \* the list results
    origin,          \* ghost: origin[k] is the entry results[k] came from
    poolCreated,     \* whether ThreadPoolExecutor(...) was constructed
    netRequests,     \* session.get calls issued by the whole run
    \* ---- _extract_int_from_html ----
    docText,         \* soup.get_text(" ", strip=True), a sequence of characters
    keywords,        \* the argument keywords
    count            \* <<the value returned>>, <<>> before the call

fetchVars == <<max_retries, backoff_factor, call, posts>>
runVars == <<urls, max_workers, pc, submitted, numThreads, workQueue, fut,
             collected, results, origin, poolCreated, netRequests>>
extractVars == <<docText, keywords, count>>
vars == <<fetchVars, runVars, extractVars>>

(***************************************************************************)
(* Bounds of the model.                                                    *)
(***************************************************************************)
MaxRetries == 3      \* max_retries ranges over 1..MaxRetries
MaxBackoff == 2      \* backoff_factor ranges over 0..MaxBackoff
MaxUrls == 2         \* scrape_urls is given 0..MaxUrls entries
RunRetries == 2      \* max_retries of the scraper handed to scrape_urls
MaxWorkers == 2      \* max_workers ranges over 1..MaxWorkers

(***************************************************************************)
(* Values.                                                                 *)
(***************************************************************************)
None == "<None>"
NotYet == "<not yet>"
NoError == [attempt |-> 0, kind |-> "none"]

\* Response bodies: empty text, text without markup, a page with og: tags.
EmptyBody == ""
Bodies == {EmptyBody, "plain text", "<html og>"}

\* What one session.get can do: raise a requests.RequestException, raise an
\* exception of another class, or deliver a response.
TransportError == [kind |-> "transport", status |-> 0, text |-> None]
OtherException == [kind |-> "other", status |-> 0, text |-> None]
Responses ==
    {[kind |-> "response", status |-> 200, text |-> b] : b \in Bodies}
    \cup {[kind |-> "response", status |-> s, text |-> "error page"] : s \in {404, 500}}
Outcomes == {TransportError, OtherException} \cup Responses

(***************************************************************************)
(* _fetch_html_with_retries                                                *)
(***************************************************************************)
\* The frame on entry: delay = self.backoff_factor, last_error = None.
FetchStart(b) ==
    [attempt |-> 1, delay |-> b, last_error |-> NoError, requests |-> 0,
     slept |-> <<>>, hist |-> <<>>, status |-> "running", ret |-> None]

\* response.status_code >= 500
IsServerError(status) == status >= 500

\* response.raise_for_status() raises HTTPError, a RequestException
RaisesForStatus(status) == status >= 400 /\ status < 600

\* delay *= 2
NextDelayAdds(d) == d + 1
NextDelay(d) == d * 2

\* if attempt < self.max_retries
MayRetry(attempt, n) == attempt < n

\* the except requests.RequestException handler
HandleRequestException(st, kind, n) ==
    LET e == [st EXCEPT !.last_error = [attempt |-> st.attempt, kind |-> kind]]
    IN  IF MayRetry(st.attempt, n)
        THEN [e EXCEPT !.slept = Append(@, [after |-> st.attempt, delay |-> st.delay]),
                       !.delay = NextDelay(st.delay)]
        ELSE e

\* the 5xx branch: a warning is logged, nothing else
HandleServerError(st, n) == st

\* return response.text
ReturnTextFallsThrough(st, o) == [st EXCEPT !.ret = o.text]
ReturnText(st, o) == [st EXCEPT !.status = "returned", !.ret = o.text]

\* the body of the try statement, after session.get produced outcome o
TryBody(st, o, n) ==
    IF o.kind = "transport" THEN HandleRequestException(st, "transport", n)
    ELSE IF o.kind = "other" THEN [st EXCEPT !.status = "raised"]
    ELSE IF IsServerError(o.status) THEN HandleServerError(st, n)
    ELSE IF RaisesForStatus(o.status) THEN HandleRequestException(st, "http", n)
    ELSE ReturnText(st, o)

\* for attempt in range(1, self.max_retries + 1): leaving the loop returns None
LoopAdvanceStopsEarly(st, n) ==
    IF st.status # "running" THEN st
    ELSE IF st.attempt + 1 < n THEN [st EXCEPT !.attempt = @ + 1]
    ELSE [st EXCEPT !.status = "returned", !.ret = None]
LoopAdvance(st, n) ==
    IF st.status # "running" THEN st
    ELSE IF st.attempt < n THEN [st EXCEPT !.attempt = @ + 1]
    ELSE [st EXCEPT !.status = "returned", !.ret = None]

\* one iteration of the loop: the request, its handling, the loop's advance
Iteration(st, o, n) ==
    LoopAdvance(
        TryBody([st EXCEPT !.requests = @ + 1, !.hist = Append(@, o)], o, n), n)

(***************************************************************************)
(* fetch_and_parse and _parse_single_post_page                             *)
(***************************************************************************)
\* _get_meta_property(soup, "og:url"): only the page with og: tags has one
OgUrl(html) == IF html = "<html og>" THEN "https://fb/canonical" ELSE None

\* _parse_single_post_page: one PostRecord, always; capture time left out
ParseSinglePostPage(url, html) ==
    LET og == OgUrl(html)
    IN  << [url |-> IF og = None THEN url ELSE og, page |-> html] >>

\* Python truth of an Optional[str]: None and "" are both false
Falsy(html) == html = None \/ html = EmptyBody

\* if not html: return []
FetchAndParseTail(url, html) ==
    IF Falsy(html) THEN <<>> ELSE ParseSinglePostPage(url, html)

(***************************************************************************)
(* FetchSpec: one fetch_and_parse call, a step per loop iteration.         *)
(***************************************************************************)
FetchUrl == "https://fb/page/posts/1"

RunIdle ==
    /\ urls = <<>> /\ max_workers = 1 /\ pc = "idle" /\ submitted = 0
    /\ numThreads = 0 /\ workQueue = <<>> /\ fut = <<>> /\ collected = {}
    /\ results = <<>> /\ origin = <<>> /\ poolCreated = FALSE /\ netRequests = 0

ExtractIdle == docText = <<>> /\ keywords = <<>> /\ count = <<>>

FetchIdle ==
    /\ max_retries = 1 /\ backoff_factor = 0
    /\ call = [FetchStart(0) EXCEPT !.status = "idle"] /\ posts = NotYet

FetchInit ==
    /\ max_retries \in 1..MaxRetries
    /\ backoff_factor \in 0..MaxBackoff
    /\ call = FetchStart(backoff_factor)
    /\ posts = NotYet
    /\ RunIdle /\ ExtractIdle

\* An iteration; when it ends the fetch, fetch_and_parse runs on to its return.
Attempt(o) ==
    /\ call.status = "running"
    /\ LET st == Iteration(call, o, max_retries)
       IN  /\ call' = st
           /\ posts' = IF st.status = "returned"
                       THEN FetchAndParseTail(FetchUrl, st.ret)
                       ELSE posts
    /\ UNCHANGED <<max_retries, backoff_factor, runVars, extractVars>>

RequestException == Attempt(TransportError)
UncaughtException == Attempt(OtherException)
Response == \E r \in Responses : Attempt(r)

FetchNext == RequestException \/ UncaughtException \/ Response

FetchSpec == FetchInit /\ [][FetchNext]_vars

(***************************************************************************)
(* Properties of the fetcher, checked under FetchSpec.                     *)
(***************************************************************************)
IsSuccess(o) == o.kind = "response" /\ o.status < 400
IsClientError(o) == o.kind = "response" /\ o.status >= 400 /\ o.status < 500
IsServerErrorResponse(o) == o.kind = "response" /\ o.status >= 500
IsTransportError(o) == o.kind = "transport"
IsFailure(o) == IsTransportError(o) \/ IsClientError(o) \/ IsServerErrorResponse(o)

AllAttempts(P(_)) == \A k \in 1..Len(call.hist) : P(call.hist[k])
SomeAttempt(P(_)) == \E k \in 1..Len(call.hist) : P(call.hist[k])

RECURSIVE Pow2(_)
Pow2(k) == IF k = 0 THEN 1 ELSE 2 * Pow2(k - 1)

Min(a, b) == IF a < b THEN a ELSE b

\* C1: when every attempt fails (transport error, 4xx or 5xx), the fetch issues
\* exactly max_retries requests, never more and never fewer, and then returns
\* None: it has not returned before the max_retries-th request, and it has
\* returned None once that request failed.
C1_RetryExhaustion ==
    /\ call.requests <= max_retries
    /\ AllAttempts(IsFailure) =>
          /\ call.requests = Len(call.hist)
          /\ call.requests < max_retries => call.status = "running"
          /\ call.requests = max_retries =>
                call.status = "returned" /\ call.ret = None

C1_Witness ==
    /\ max_retries = 3 /\ call.status = "returned" /\ call.requests = 3
    /\ IsTransportError(call.hist[1]) /\ IsClientError(call.hist[2])
    /\ IsServerErrorResponse(call.hist[3])

\* C2: if attempt k is the first to receive a success-status response, the
\* fetch has returned that response's text, exactly k requests were issued
\* (none after the response), and no backoff wait follows attempt k.
C2_SuccessStopsLoop ==
    \A k \in 1..Len(call.hist) :
        IsSuccess(call.hist[k]) =>
            /\ Len(call.hist) = k
            /\ call.requests = k
            /\ call.status = "returned"
            /\ call.ret = call.hist[k].text
            /\ \A w \in 1..Len(call.slept) : call.slept[w].after < k

C2_Witness ==
    /\ max_retries = 3 /\ Len(call.hist) = 2
    /\ IsTransportError(call.hist[1]) /\ IsSuccess(call.hist[2])
    /\ call.status = "returned" /\ call.ret = "plain text"

\* C3: after a non-final attempt that received a status >= 500 the fetcher
\* waits the current backoff delay before the next attempt (and doubles it),
\* the attempt counting against max_retries.
C3_ServerErrorBacksOff ==
    /\ call.requests <= max_retries
    /\ \A k \in 1..Len(call.hist) :
          (IsServerErrorResponse(call.hist[k]) /\ k < max_retries) =>
              \E w \in 1..Len(call.slept) : call.slept[w].after = k

IsBackedOffFailure(o) == IsTransportError(o) \/ IsClientError(o)

\* C4: while every attempt fails with a transport error or a 4xx response,
\* the wait after attempt k is backoff_factor * 2^(k-1) for k < max_retries,
\* so max_retries - 1 waits in all and none after the final attempt.
C4_BackoffGrowth ==
    AllAttempts(IsBackedOffFailure) =>
        call.slept =
            [k \in 1..Min(Len(call.hist), max_retries - 1) |->
                [after |-> k, delay |-> backoff_factor * Pow2(k - 1)]]

C4_Witness ==
    /\ max_retries = 3 /\ backoff_factor = 1 /\ call.status = "returned"
    /\ IsTransportError(call.hist[1]) /\ IsClientError(call.hist[2])
    /\ IsClientError(call.hist[3])
    /\ call.slept = <<[after |-> 1, delay |-> 1], [after |-> 2, delay |-> 2]>>

\* C6: fetch_and_parse yields exactly one record when the fetcher obtained a
\* success-status response, whatever its body, and no record when the fetcher
\* reported None.
C6_OneRecordPerFetchedUrl ==
    call.status = "returned" =>
        /\ SomeAttempt(IsSuccess) => Len(posts) = 1
        /\ ~SomeAttempt(IsSuccess) => Len(posts) = 0

\* C11: when all max_retries attempts failed (transport errors, 4xx and 5xx
\* responses in any mix) and the fetch returned None, the error it reports
\* (last_error, logged at line 126) is the failure of the most recent
\* attempt: not an earlier attempt's error, and not absent.
C11_LastErrorRetained ==
    (/\ call.status = "returned" /\ call.ret = None
     /\ call.requests = max_retries
     /\ AllAttempts(IsFailure)) =>
        /\ call.last_error # NoError
        /\ call.last_error.attempt = max_retries


(***************************************************************************)
(* fetch_and_parse as one call: every way it can end for a url.            *)
(***************************************************************************)
RECURSIVE FetchEnds(_, _)
\* the frames _fetch_html_with_retries can end in, over all network behaviours
FetchEnds(st, n) ==
    IF st.status # "running" THEN {st}
    ELSE UNION {FetchEnds(Iteration(st, o, n), n) : o \in Outcomes}

\* fetch_and_parse(url): the list it returns, or the exception it lets through
FetchAndParse(url, n, b) ==
    {[posts |-> IF st.status = "raised" THEN <<>> ELSE FetchAndParseTail(url, st.ret),
      exc |-> st.status = "raised",
      requests |-> st.requests] : st \in FetchEnds(FetchStart(b), n)}

(***************************************************************************)
(* scrape_urls                                                             *)
(***************************************************************************)
Urls == {"https://fb/page/posts/1", "https://fb/other/posts/2"}
UrlLists == UNION {[1..n -> Urls] : n \in 0..MaxUrls}

\* if not urls
IsEmptyInputNever(u) == FALSE
IsEmptyInput(u) == Len(u) = 0

\* executor.submit -> _adjust_thread_count: a thread is started while fewer
\* than max_workers exist
AdjustThreadCountUnbounded(threads, workers) == threads + 1
AdjustThreadCount(threads, workers) ==
    IF threads < workers THEN threads + 1 ELSE threads

NewFuture == [state |-> "pending", posts |-> <<>>, exc |-> FALSE]

Running == {i \in DOMAIN fut : fut[i].state = "running"}

\* results.extend(posts)
ExtendOverwrites(res, p) == p
Extend(res, p) == res \o p

\* try: posts = future.result(); if posts: extend  except Exception: log
\* -> what is added to results, and whether an exception leaves scrape_urls
FutureResultUncaught(f) ==
    [add |-> IF f.exc THEN <<>> ELSE f.posts, propagates |-> f.exc]
FutureResult(f) ==
    [add |-> IF f.exc THEN <<>> ELSE f.posts, propagates |-> FALSE]

Init ==
    /\ urls \in UrlLists
    /\ max_workers \in 1..MaxWorkers
    /\ max_retries = RunRetries
    /\ backoff_factor = 1
    /\ call = [FetchStart(0) EXCEPT !.status = "idle"]
    /\ posts = NotYet
    /\ pc = "start" /\ submitted = 0 /\ numThreads = 0 /\ workQueue = <<>>
    /\ fut = <<>> /\ collected = {} /\ results = <<>> /\ origin = <<>>
    /\ poolCreated = FALSE /\ netRequests = 0
    /\ ExtractIdle

\* results = []; if not urls: return results
ReturnEmpty ==
    /\ pc = "start" /\ IsEmptyInput(urls)
    /\ pc' = "done"
    /\ UNCHANGED <<urls, max_workers, submitted, numThreads, workQueue, fut,
                   collected, results, origin, poolCreated, netRequests,
                   fetchVars, extractVars>>

\* with ThreadPoolExecutor(max_workers=max_workers) as executor
CreatePool ==
    /\ pc = "start" /\ ~IsEmptyInput(urls)
    /\ poolCreated' = TRUE
    /\ pc' = "submit"
    /\ UNCHANGED <<urls, max_workers, submitted, numThreads, workQueue, fut,
                   collected, results, origin, netRequests, fetchVars, extractVars>>

\* executor.submit(scraper.fetch_and_parse, url), for the next url of the list;
\* after the last one the calling thread enters the as_completed loop
Submit ==
    /\ pc = "submit" /\ submitted < Len(urls)
    /\ submitted' = submitted + 1
    /\ fut' = Append(fut, NewFuture)
    /\ workQueue' = Append(workQueue, submitted + 1)
    /\ numThreads' = AdjustThreadCount(numThreads, max_workers)
    /\ pc' = IF submitted + 1 = Len(urls) THEN "collect" ELSE "submit"
    /\ UNCHANGED <<urls, max_workers, collected, results, origin, poolCreated,
                   netRequests, fetchVars, extractVars>>

\* an idle worker thread takes the oldest work item and starts running it
WorkerTakes ==
    /\ workQueue # <<>>
    /\ Cardinality(Running) < numThreads
    /\ fut' = [fut EXCEPT ![Head(workQueue)].state = "running"]
    /\ workQueue' = Tail(workQueue)
    /\ UNCHANGED <<urls, max_workers, pc, submitted, numThreads, collected,
                   results, origin, poolCreated, netRequests, fetchVars, extractVars>>

\* the worker's fetch_and_parse(url) ends: the future gets its result or exception
WorkerFinishes(i) ==
    /\ fut[i].state = "running"
    /\ \E o \in FetchAndParse(urls[i], max_retries, backoff_factor) :
          /\ fut' = [fut EXCEPT ![i] = [state |-> "finished", posts |-> o.posts,
                                        exc |-> o.exc]]
          /\ netRequests' = netRequests + o.requests
    /\ UNCHANGED <<urls, max_workers, pc, submitted, numThreads, workQueue,
                   collected, results, origin, poolCreated, fetchVars, extractVars>>

\* one pass of "for future in as_completed(future_to_url)"; after the last
\* future the with block is left and results is returned
Collect(i) ==
    /\ pc = "collect"
    /\ i \notin collected /\ fut[i].state = "finished"
    /\ LET r == FutureResult(fut[i])
       IN  /\ results' = IF r.add # <<>> THEN Extend(results, r.add) ELSE results
           /\ origin' = IF r.add # <<>>
                        THEN origin \o [k \in 1..Len(r.add) |-> i]
                        ELSE origin
           /\ pc' = IF r.propagates THEN "raised"
                    ELSE IF collected \cup {i} = 1..Len(urls) THEN "done"
                    ELSE "collect"
    /\ collected' = collected \cup {i}
    /\ UNCHANGED <<urls, max_workers, submitted, numThreads, workQueue, fut,
                   poolCreated, netRequests, fetchVars, extractVars>>

Next ==
    \/ ReturnEmpty
    \/ CreatePool
    \/ Submit
    \/ WorkerTakes
    \/ \E i \in DOMAIN fut : WorkerFinishes(i)
    \/ \E i \in DOMAIN fut : Collect(i)

Spec == Init /\ [][Next]_vars


(***************************************************************************)
(* Properties of scrape_urls, checked under Spec.                          *)
(***************************************************************************)
Entries == 1..Len(urls)

\* an entry whose processing failed: exception, exhausted fetch, nothing parsed
Failed(i) == fut[i].exc \/ fut[i].posts = <<>>

From(i) == {k \in 1..Len(results) : origin[k] = i}

Occurrences(s, r) == Cardinality({k \in 1..Len(s) : s[k] = r})

RECURSIVE Returned(_, _)
\* how many times record r was returned by the tasks of entries 1..i
Returned(i, r) ==
    IF i = 0 THEN 0
    ELSE Returned(i - 1, r)
         + (IF fut[i].exc THEN 0 ELSE Occurrences(fut[i].posts, r))

IsPrefix(s, t) == Len(s) <= Len(t) /\ SubSeq(t, 1, Len(s)) = s

\* C5: scrape_urls never lets a per-url failure out; when it returns, every
\* entry's task has run to its end, a failed entry contributed no record and
\* every other entry's records are all in the result.
C5_PerUrlIsolation ==
    /\ pc # "raised"
    /\ (pc = "done" /\ ~IsEmptyInput(urls)) =>
          \A i \in Entries :
              /\ fut[i].state = "finished"
              /\ Failed(i) => From(i) = {}
              /\ ~Failed(i) =>
                    /\ Cardinality(From(i)) = Len(fut[i].posts)
                    /\ \A k \in From(i) : results[k] = fut[i].posts[1]

C5_Witness ==
    /\ pc = "done" /\ Len(urls) = 2
    /\ fut[1].exc /\ ~Failed(2)
    /\ results = fut[2].posts

\* a step leaves results alone or appends one entry's whole contribution
C7_AppendOnly ==
    \/ results' = results
    \/ \E i \in Entries :
          /\ ~fut[i].exc /\ fut[i].posts # <<>>
          /\ results' = results \o fut[i].posts

\* the returned list holds each record as often as the tasks returned it
C7_SameMultiset ==
    pc = "done" =>
        \A i \in Entries : \A k \in 1..Len(fut[i].posts) :
            Occurrences(results, fut[i].posts[k]) = Returned(Len(urls), fut[i].posts[k])

\* C7: results only grows, by a whole per-url contribution appended at its
\* end (nothing added earlier is removed, moved or changed), and what
\* scrape_urls returns holds every record exactly as often as the tasks
\* returned it, whatever the order of completion and collection.
C7_OrderIndependentAggregation ==
    /\ [](Len(results) <= Len(urls) /\ C7_SameMultiset)
    /\ [][C7_AppendOnly]_vars

C7_Witness ==
    /\ pc = "done" /\ Len(urls) = 2 /\ urls[1] = urls[2]
    /\ origin = <<2, 1>>
    /\ results[1] # results[2]

\* C8: with an empty url list scrape_urls returns an empty list: no pool is
\* created, no thread started, nothing submitted, no request issued.
C8_EmptyInput ==
    urls = <<>> =>
        /\ pc \in {"start", "done"}
        /\ results = <<>>
        /\ ~poolCreated /\ numThreads = 0
        /\ submitted = 0 /\ fut = <<>> /\ workQueue = <<>>
        /\ netRequests = 0

C8_Witness == urls = <<>> /\ pc = "done" /\ results = <<>> /\ ~poolCreated

\* C10: at most max_workers entries are in flight (started, not finished),
\* however many urls were submitted.
C10_WorkerBound == Cardinality(Running) <= max_workers

C10_Witness ==
    /\ submitted > max_workers
    /\ Cardinality(Running) = max_workers
    /\ workQueue # <<>>


(***************************************************************************)
(* _extract_int_from_html.  A text is a sequence of one-character strings; *)
(* Python's 0-based indexes are kept.                                      *)
(***************************************************************************)
WindowBefore == 20   \* text[max(0, idx - 20) : ...]
WindowAfter == 20    \* text[... : idx + 20]

DigitChars == <<"0", "1", "2", "3", "4", "5", "6", "7", "8", "9">>
IsDigitChar(c) == \E d \in 1..10 : DigitChars[d] = c
DigitValue(c) == (CHOOSE d \in 1..10 : DigitChars[d] = c) - 1
IsSpace(c) == c = " "

\* str.lower(), on the letters the documents of the model are written with
LowerChar(c) ==
    CASE c = "C" -> "c"
      [] c = "L" -> "l"
      [] c = "X" -> "x"
      [] OTHER -> c
Lower(t) == [k \in 1..Len(t) |-> LowerChar(t[k])]

\* text.find(kw): the lowest 0-based index where kw occurs, -1 when nowhere
Find(t, kw) ==
    LET hits == {i \in 0..(Len(t) - Len(kw)) : SubSeq(t, i + 1, i + Len(kw)) = kw}
    IN  IF hits = {} THEN -1 ELSE CHOOSE i \in hits : \A j \in hits : i <= j

Max(a, b) == IF a > b THEN a ELSE b

\* text[a:b] for 0 <= a
Slice(t, a, b) == SubSeq(t, a + 1, Min(b, Len(t)))

\* window = text[max(0, idx - 20) : idx + 20]
Window(t, idx) == Slice(t, Max(0, idx - WindowBefore), idx + WindowAfter)

RECURSIVE SplitFrom(_, _, _)
SplitFrom(t, i, cur) ==
    IF i > Len(t) THEN (IF cur = <<>> THEN <<>> ELSE <<cur>>)
    ELSE IF IsSpace(t[i])
         THEN (IF cur = <<>> THEN <<>> ELSE <<cur>>) \o SplitFrom(t, i + 1, <<>>)
         ELSE SplitFrom(t, i + 1, Append(cur, t[i]))

\* window.split(): the maximal runs of non-whitespace
Split(t) == SplitFrom(t, 1, <<>>)

\* token.replace(",", "")
RemoveCommas(tok) == SelectSeq(tok, LAMBDA c : c # ",")

\* token_clean.isdigit()
IsDigit(tok) == tok # <<>> /\ \A k \in 1..Len(tok) : IsDigitChar(tok[k])

RECURSIVE IntOf(_)
\* int(token_clean)
IntOf(tok) ==
    IF tok = <<>> THEN 0
    ELSE 10 * IntOf(SubSeq(tok, 1, Len(tok) - 1)) + DigitValue(tok[Len(tok)])

RECURSIVE ScanTokens(_, _)
\* for token in tokens: ... if value > best_value: best_value = value
ScanTokens(tokens, best) ==
    IF tokens = <<>> THEN best
    ELSE LET clean == RemoveCommas(Head(tokens))
             next == IF IsDigit(clean) /\ IntOf(clean) > best
                     THEN IntOf(clean) ELSE best
         IN  ScanTokens(Tail(tokens), next)

RECURSIVE ScanKeywords(_, _, _)
\* for kw in keywords: idx = text.find(kw.lower()); if idx == -1: continue ...
ScanKeywords(t, kws, best) ==
    IF kws = <<>> THEN best
    ELSE LET idx == Find(t, Lower(Head(kws)))
         IN  IF idx = -1 THEN ScanKeywords(t, Tail(kws), best)
             ELSE ScanKeywords(t, Tail(kws), ScanTokens(Split(Window(t, idx)), best))

\* _extract_int_from_html, given soup.get_text(" ", strip=True)
ExtractIntFromHtml(visible, kws) == ScanKeywords(Lower(visible), kws, 0)

\* the keyword lists of the two calls in _parse_single_post_page
CommentKeywords ==
    << <<"c", "o", "m", "m", "e", "n", "t", "s">>, <<"c", "o", "m", "m", "e", "n", "t">> >>
ReactionKeywords ==
    << <<"l", "i", "k", "e", "s">>,
       <<"r", "e", "a", "c", "t", "i", "o", "n", "s">>,
       <<"r", "e", "a", "c", "t", "e", "d">> >>

(***************************************************************************)
(* ExtractSpec: the two count extractions over bounded document texts.     *)
(* A text is  head gap word gap tail : two tokens of at most MaxTokenLen   *)
(* characters around one word, the gaps being runs of spaces whose lengths *)
(* put the tokens inside, across or outside an edge of the window.         *)
(***************************************************************************)
MaxTokenLen == 2

TokenChars == {"1", "7", ",", "x"}
Tokens == UNION {[1..n -> TokenChars] : n \in 0..MaxTokenLen}

Words ==
    { <<"C", "o", "m", "m", "e", "n", "t", "s">>,
      <<"c", "o", "m", "m", "e", "n", "t">>,
      <<"L", "i", "k", "e", "s">>,
      <<"p", "o", "s", "t">> }

Spaces(n) == [k \in 1..n |-> " "]

GapsBefore == {0, 1} \cup ((WindowBefore - MaxTokenLen)..WindowBefore)
GapsAfter(word) ==
    {0, 1} \cup ((WindowAfter - Len(word) - MaxTokenLen)..(WindowAfter - Len(word)))

\* get_text(strip=True) leaves no whitespace at either end of the text
Documents ==
    {head \o Spaces(gl) \o word \o Spaces(gr) \o tail :
        <<head, gl, word, gr, tail>> \in
            {x \in Tokens \X GapsBefore \X Words \X (0..WindowAfter) \X Tokens :
                /\ x[4] \in GapsAfter(x[3])
                /\ x[1] = <<>> => x[2] = 0
                /\ x[5] = <<>> => x[4] = 0}}

ExtractInit ==
    /\ docText \in Documents
    /\ keywords = <<>>
    /\ count = <<>>
    /\ FetchIdle /\ RunIdle

\* comments_count = self._extract_int_from_html(soup, ["comments", "comment"])
ExtractComments ==
    /\ count = <<>>
    /\ keywords' = CommentKeywords
    /\ count' = <<ExtractIntFromHtml(docText, CommentKeywords)>>
    /\ UNCHANGED <<docText, fetchVars, runVars>>

\* reactions_count = self._extract_int_from_html(soup, ["likes", "reactions", "reacted"])
ExtractReactions ==
    /\ count = <<>>
    /\ keywords' = ReactionKeywords
    /\ count' = <<ExtractIntFromHtml(docText, ReactionKeywords)>>
    /\ UNCHANGED <<docText, fetchVars, runVars>>

ExtractNext == ExtractComments \/ ExtractReactions

ExtractSpec == ExtractInit /\ [][ExtractNext]_vars

(***************************************************************************)
(* Properties of _extract_int_from_html, checked under ExtractSpec.        *)
(***************************************************************************)
\* the whitespace-delimited tokens of a text, as 0-based spans [from, to)
TokenSpans(t) ==
    {sp \in (0..Len(t)) \X (0..Len(t)) :
        /\ sp[1] < sp[2]
        /\ \A k \in (sp[1] + 1)..sp[2] : ~IsSpace(t[k])
        /\ sp[1] = 0 \/ IsSpace(t[sp[1]])
        /\ sp[2] = Len(t) \/ IsSpace(t[sp[2] + 1])}

\* the first occurrences of the keywords in the lowered text
FirstOccurrences(t, kws) ==
    {Find(t, Lower(kws[k])) : k \in 1..Len(kws)} \ {-1}

\* the purely numeric (commas removed) tokens of the document that reach into
\* the window of the first occurrence of a keyword, as integers
NumericTokensNear(t, kws) ==
    {IntOf(RemoveCommas(SubSeq(t, sp[1] + 1, sp[2]))) :
        sp \in {s \in TokenSpans(t) :
                  /\ IsDigit(RemoveCommas(SubSeq(t, s[1] + 1, s[2])))
                  /\ \E idx \in FirstOccurrences(t, kws) :
                        s[2] > Max(0, idx - WindowBefore) /\ s[1] < idx + WindowAfter}}

SetMax(S) == IF S = {} THEN 0 ELSE CHOOSE m \in S : \A x \in S : x <= m

\* C9: the count returned is >= 0 and never larger than the largest purely
\* numeric (commas removed) whitespace-delimited token of the document text
\* near the first occurrence of a keyword; it is 0 when there is no such token.
C9_CountBound ==
    count # <<>> =>
        /\ count[1] >= 0
        /\ count[1] <= SetMax(NumericTokensNear(Lower(docText), keywords))

====
